---------------------------- MODULE Spec2Model ----------------------------
(***************************************************************************)
(* A model of jupytext/formats.py: the registry of text notebook formats,  *)
(* the compact format specifiers, the format resolver, the format sniffer, *)
(* the version guard and the metadata migration.                           *)
(*                                                                         *)
(* Python values are encoded as follows.                                   *)
(*   str            a TLA+ string                                          *)
(*   Optional[x]    <<>> for None / a missing key, <<x>> for a value x     *)
(*   (ext, name)    the pair <<ext, name>>, name an Optional[str]          *)
(*   dict           a record with one Optional field per key the code reads*)
(*   raise          a result record whose err field names the exception    *)
(***************************************************************************)
EXTENDS Integers, Sequences, FiniteSets, TLC

VARIABLES registry, parser, updater, resolver, sniffer, guard, migrator

vars == <<registry, parser, updater, resolver, sniffer, guard, migrator>>

(***************************************************************************)
(* Bounds of the model.                                                    *)
(***************************************************************************)
MaxFormats == 2

MaxCalls == 2

MaxLines == 3

MaxNames == 2

MaxRuns == 2

(***************************************************************************)
(* Python's str and os.path operations, as the code uses them.             *)
(***************************************************************************)
None == <<>>

Some(x) == <<x>>

\* Python truthiness of an Optional[str]: None and '' are false.
Truthy(o) == o # None /\ o[1] # ""

\* s[i:i+1] with Python's 0-based index: '' past the end.
CharAt(s, i) == IF i < Len(s) THEN SubSeq(s, i + 1, i + 1) ELSE ""

\* s[i:]
SliceFrom(s, i) == IF i < Len(s) THEN SubSeq(s, i + 1, Len(s)) ELSE ""

\* s[:i]
SliceTo(s, i) == IF i < Len(s) THEN SubSeq(s, 1, i) ELSE s

\* s.startswith(p)
StartsWith(s, p) == Len(p) <= Len(s) /\ SubSeq(s, 1, Len(p)) = p

\* s.endswith(p)
EndsWith(s, p) == Len(p) <= Len(s) /\ SubSeq(s, Len(s) - Len(p) + 1, Len(s)) = p

\* s.find(c) for a one-character c: the first 0-based index, or -1.
Find(s, c) ==
    LET hits == {i \in 0..(Len(s) - 1) : CharAt(s, i) = c}
    IN  IF hits = {} THEN -1 ELSE CHOOSE i \in hits : \A j \in hits : i <= j

\* s.rfind(c) for a one-character c: the last 0-based index, or -1.
RFind(s, c) ==
    LET hits == {i \in 0..(Len(s) - 1) : CharAt(s, i) = c}
    IN  IF hits = {} THEN -1 ELSE CHOOSE i \in hits : \A j \in hits : j <= i

\* s.split(c) for a one-character c: always at least one piece.
RECURSIVE Split(_, _)
Split(s, c) ==
    LET i == Find(s, c)
    IN  IF i < 0 THEN <<s>>
        ELSE <<SliceTo(s, i)>> \o Split(SliceFrom(s, i + 1), c)

\* c.join(pieces)
RECURSIVE Join(_, _)
Join(pieces, c) ==
    IF pieces = <<>> THEN ""
    ELSE IF Len(pieces) = 1 THEN pieces[1]
    ELSE pieces[1] \o c \o Join(Tail(pieces), c)

\* os.path.splitext(p): the extension starts at the last dot of the base
\* name, unless only dots precede that dot in the base name.
SplitExt(p) ==
    LET sep  == RFind(p, "/")
        dot  == RFind(p, ".")
        lead == {i \in (sep + 1)..(dot - 1) : CharAt(p, i) # "."}
    IN  IF dot > sep /\ lead # {}
        THEN <<SliceTo(p, dot), SliceFrom(p, dot)>>
        ELSE <<p, "">>

\* os.path.basename(p)
BaseName(p) == SliceFrom(p, RFind(p, "/") + 1)

\* The printable ASCII characters in code point order, from 32. The slot of
\* the backquote (96), which a TLA+ string cannot hold, repeats "_".
AsciiTable ==
    " !\"#$%&'()*+,-./0123456789:;<=>?@ABCDEFGHIJKLMNOPQRSTUVWXYZ[\\]^__abcdefghijklmnopqrstuvwxyz{|}~"

CodePoint(c) == 32 + Find(AsciiTable, c)

\* Python's a <= b on two str: lexicographic by code point.
RECURSIVE StrLE(_, _)
StrLE(a, b) ==
    IF a = "" THEN TRUE
    ELSE IF b = "" THEN FALSE
    ELSE IF CharAt(a, 0) = CharAt(b, 0) THEN StrLE(SliceFrom(a, 1), SliceFrom(b, 1))
    ELSE CodePoint(CharAt(a, 0)) < CodePoint(CharAt(b, 0))

IsLetter(c) ==
    c # "" /\ ((65 <= CodePoint(c) /\ CodePoint(c) <= 90) \/ (97 <= CodePoint(c) /\ CodePoint(c) <= 122))

IsDigit(c) == c # "" /\ 48 <= CodePoint(c) /\ CodePoint(c) <= 57

(***************************************************************************)
(* The registry of formats.                                                *)
(***************************************************************************)
\* languages._SCRIPT_EXTENSIONS: the script extensions, each with its
\* comment prefix, in the table's order.
SCRIPT_EXTENSIONS ==
    << [ext |-> ".py",  comment |-> "#"],
       [ext |-> ".R",   comment |-> "#"],
       [ext |-> ".r",   comment |-> "#"],
       [ext |-> ".jl",  comment |-> "#"],
       [ext |-> ".cpp", comment |-> "//"] >>

IsScriptExtension(ext) == \E i \in 1..Len(SCRIPT_EXTENSIONS) : SCRIPT_EXTENSIONS[i].ext = ext

ScriptComment(ext) ==
    (CHOOSE e \in {SCRIPT_EXTENSIONS[i] : i \in 1..Len(SCRIPT_EXTENSIONS)} : e.ext = ext).comment

NotebookFormatDescription(name, ext, prefix, current, minReadable) ==
    [format_name |-> name, extension |-> ext, header_prefix |-> prefix,
     current_version_number |-> current,
     min_readable_version_number |-> minReadable]

ScriptFormats(name, current, minReadable) ==
    [i \in 1..Len(SCRIPT_EXTENSIONS) |->
        NotebookFormatDescription(name, SCRIPT_EXTENSIONS[i].ext,
                                  SCRIPT_EXTENSIONS[i].comment, current, minReadable)]

JUPYTEXT_FORMATS ==
    << NotebookFormatDescription("markdown", ".md", "", "1.0", None),
       NotebookFormatDescription("rmarkdown", ".Rmd", "", "1.0", None),
       NotebookFormatDescription("spin", ".r", "#'", "1.0", None),
       NotebookFormatDescription("spin", ".R", "#'", "1.0", None) >>
    \o ScriptFormats("light", "1.3", Some("1.1"))
    \o ScriptFormats("percent", "1.2", Some("1.1"))
    \o ScriptFormats("hydrogen", "1.2", Some("1.1"))
    \o << NotebookFormatDescription("sphinx", ".py", "#", "1.1", None) >>

\* list(dict.fromkeys(s)): the first occurrence of each element, in order.
RECURSIVE Dedupe(_)
Dedupe(s) ==
    IF s = <<>> THEN <<>>
    ELSE LET init == Dedupe(SubSeq(s, 1, Len(s) - 1))
             last == s[Len(s)]
         IN  IF \E i \in 1..Len(init) : init[i] = last THEN init
             ELSE Append(init, last)

NOTEBOOK_EXTENSIONS ==
    Dedupe(<<".ipynb">> \o [i \in 1..Len(JUPYTEXT_FORMATS) |-> JUPYTEXT_FORMATS[i].extension])

EXTENSION_PREFIXES == <<".lgt", ".spx", ".pct", ".hyd", ".nb">>

InSeq(x, s) == \E i \in 1..Len(s) : s[i] = x

\* The formats of JUPYTEXT_FORMATS registered for ext, in the table's order.
FormatsForExtension(ext) ==
    SelectSeq(JUPYTEXT_FORMATS, LAMBDA fmt : fmt.extension = ext)

\* A result of get_format_implementation: a description (fmt = <<d>>), None
\* (fmt = <<>>, err = ""), or a raised TypeError with the names its message
\* lists.
FoundFormat(fmt) == [err |-> "", fmt |-> fmt, candidates |-> <<>>]

LookupError(kind, names) == [err |-> kind, fmt |-> None, candidates |-> names]

\* A variant of the lookup that never falls back on the first format of the
\* extension: a missing format name matches no description.
GetFormatImplementationNoDefault(ext0, format_name) ==
    LET pieces == Split(ext0, ".")
        ext    == "." \o pieces[Len(pieces)]
        forExt == FormatsForExtension(ext)
        match  == SelectSeq(forExt, LAMBDA fmt : Some(fmt.format_name) = format_name)
        names  == [i \in 1..Len(forExt) |-> forExt[i].format_name]
    IN  IF EndsWith(ext, ".ipynb") THEN FoundFormat(None)
        ELSE IF match # <<>> THEN FoundFormat(Some(match[1]))
        ELSE IF forExt # <<>> THEN LookupError("TypeError: format not associated to extension", names)
        ELSE LookupError("TypeError: no format associated to extension", <<>>)

\* The loop returns the first format for ext whose name is format_name, or
\* the first format for ext when format_name is None or ''; the names it
\* passed over are listed in the error.
get_format_implementation(ext0, format_name) ==
    LET pieces == Split(ext0, ".")
        ext    == "." \o pieces[Len(pieces)]
        forExt == FormatsForExtension(ext)
        match  == SelectSeq(forExt, LAMBDA fmt :
                      Some(fmt.format_name) = format_name \/ ~Truthy(format_name))
        names  == [i \in 1..Len(forExt) |-> forExt[i].format_name]
    IN  IF EndsWith(ext, ".ipynb") THEN FoundFormat(None)
        ELSE IF match # <<>> THEN FoundFormat(Some(match[1]))
        ELSE IF forExt # <<>> THEN LookupError("TypeError: format not associated to extension", names)
        ELSE LookupError("TypeError: no format associated to extension", <<>>)

(***************************************************************************)
(* Inputs of the registry lookup.                                          *)
(***************************************************************************)
FormatNames == {"markdown", "rmarkdown", "spin", "light", "percent", "hydrogen", "sphinx"}

OptFormatNames == {None} \cup {Some(n) : n \in FormatNames \cup {"", "unknown"}}

LookupExtensions ==
    {".py", "py", ".R", ".r", ".jl", ".cpp", ".md", ".Rmd", ".ipynb",
     ".lgt.py", ".nb.md", ".txt", "txt", ".auto"}

Idle == [pc |-> "idle"]

InitRegistry ==
    /\ registry \in [pc : {"start"}, ext : LookupExtensions,
                     format_name : OptFormatNames, ret : {FoundFormat(None)}]
    /\ parser = Idle /\ updater = Idle /\ resolver = Idle
    /\ sniffer = Idle /\ guard = Idle /\ migrator = Idle

GetFormatImplementation ==
    /\ registry.pc = "start"
    /\ registry' = [registry EXCEPT !.pc = "done",
                       !.ret = get_format_implementation(registry.ext, registry.format_name)]
    /\ UNCHANGED <<parser, updater, resolver, sniffer, guard, migrator>>

NextRegistry == GetFormatImplementation

SpecRegistry == InitRegistry /\ [][NextRegistry]_vars

\* C4 (as stated): a lookup with no format name returns a description only
\* when exactly one is registered for the extension, signals the ambiguity
\* with all the candidate names when several are, and signals an unknown
\* extension when none is.
C4_AmbiguityDetection ==
    (registry.pc = "done" /\ registry.format_name = None) =>
        LET norm == "." \o SliceFrom(registry.ext, RFind(registry.ext, ".") + 1)
            regd == {i \in 1..Len(JUPYTEXT_FORMATS) : JUPYTEXT_FORMATS[i].extension = norm}
        IN  /\ registry.ret.fmt # None => Cardinality(regd) = 1
            /\ Cardinality(regd) > 1 =>
                   /\ registry.ret.err = "TypeError: format not associated to extension"
                   /\ Len(registry.ret.candidates) = Cardinality(regd)
            /\ Cardinality(regd) = 0 =>
                   registry.ret.err = "TypeError: no format associated to extension"

\* C4 (amended): a lookup with no format name returns the first description
\* registered for the extension, also when several are registered (light for
\* .py, spin for .R); a lookup with a name that no description of the
\* extension carries raises an error listing every name registered for the
\* extension; a lookup for an extension with no description raises the
\* unknown-extension error, except that .ipynb yields None.
C4_FirstRegisteredFormat ==
    registry.pc = "done" =>
        LET norm  == "." \o SliceFrom(registry.ext, RFind(registry.ext, ".") + 1)
            regd  == {i \in 1..Len(JUPYTEXT_FORMATS) : JUPYTEXT_FORMATS[i].extension = norm}
            first == CHOOSE i \in regd : \A j \in regd : i <= j
            named == {i \in regd : Some(JUPYTEXT_FORMATS[i].format_name) = registry.format_name}
            ret   == registry.ret
        IN  /\ (norm = ".ipynb") => ret = FoundFormat(None)
            /\ (regd = {} /\ norm # ".ipynb") =>
                   /\ ret.err = "TypeError: no format associated to extension"
                   /\ ret.fmt = None
            /\ (regd # {} /\ registry.format_name \in {None, Some("")}) =>
                   /\ ret.err = ""
                   /\ ret.fmt = Some(JUPYTEXT_FORMATS[first])
                   /\ (norm = ".py") => ret.fmt[1].format_name = "light"
                   /\ (norm = ".R") => ret.fmt[1].format_name = "spin"
            /\ (regd # {} /\ registry.format_name \notin {None, Some("")} /\ named = {}) =>
                   /\ ret.err = "TypeError: format not associated to extension"
                   /\ ret.fmt = None
                   /\ Len(ret.candidates) = Cardinality(regd)
                   /\ \A i \in regd : InSeq(JUPYTEXT_FORMATS[i].format_name, ret.candidates)
            /\ (named # {}) =>
                   /\ ret.err = ""
                   /\ ret.fmt[1].format_name = registry.format_name[1]
                   /\ ret.fmt[1].extension = norm

\* A lookup of .py with no format name has returned, four formats being
\* registered for .py.
C4_Witness ==
    /\ registry.pc = "done"
    /\ registry.ext = ".py"
    /\ registry.format_name = None
    /\ Len(FormatsForExtension(".py")) = 4
    /\ registry.ret.err = ""
    /\ registry.ret.fmt[1].format_name = "light"

(***************************************************************************)
(* The compact format specifiers.                                          *)
(***************************************************************************)
Parsed(v) == [err |-> "", val |-> v]

ParseError == [err |-> "ValueError: extension not legitimate", val |-> <<>>]

\* A variant of parse_one_format that does not add the leading dot.
ParseOneFormatNoDot(ext_and_format_name) ==
    LET colon       == Find(ext_and_format_name, ":")
        ext         == IF colon >= 0 THEN SliceTo(ext_and_format_name, colon)
                       ELSE ext_and_format_name
        format_name == IF colon >= 0 THEN Some(SliceFrom(ext_and_format_name, colon + 1))
                       ELSE None
        legitimate  == NOTEBOOK_EXTENSIONS \o <<".auto">>
        parts       == SplitExt(ext)
    IN  IF InSeq(ext, legitimate) THEN Parsed(<<ext, format_name>>)
        ELSE IF RFind(ext, ".") > 0 /\ InSeq(parts[2], legitimate)
                /\ InSeq(parts[1], EXTENSION_PREFIXES)
             THEN Parsed(<<ext, format_name>>)
        ELSE ParseError

\* "py:percent" to (".py", "percent"): split at the first colon, add the
\* leading dot, accept a legitimate extension with an optional prefix.
parse_one_format(ext_and_format_name) ==
    LET colon       == Find(ext_and_format_name, ":")
        ext0        == IF colon >= 0 THEN SliceTo(ext_and_format_name, colon)
                       ELSE ext_and_format_name
        format_name == IF colon >= 0 THEN Some(SliceFrom(ext_and_format_name, colon + 1))
                       ELSE None
        ext         == IF StartsWith(ext0, ".") THEN ext0 ELSE "." \o ext0
        legitimate  == NOTEBOOK_EXTENSIONS \o <<".auto">>
        parts       == SplitExt(ext)
    IN  IF InSeq(ext, legitimate) THEN Parsed(<<ext, format_name>>)
        ELSE IF RFind(ext, ".") > 0 /\ InSeq(parts[2], legitimate)
                /\ InSeq(parts[1], EXTENSION_PREFIXES)
             THEN Parsed(<<ext, format_name>>)
        ELSE ParseError

\* "md,py:percent" to [(".md", None), (".py", "percent")]; None and '' give
\* the empty list; the first illegitimate piece raises.
parse_formats(formats) ==
    IF ~Truthy(formats) THEN Parsed(<<>>)
    ELSE LET pieces == Split(formats[1], ",")
             each   == [i \in 1..Len(pieces) |-> parse_one_format(pieces[i])]
         IN  IF \E i \in 1..Len(each) : each[i].err # "" THEN ParseError
             ELSE Parsed([i \in 1..Len(each) |-> each[i].val])

\* The loop of update_formats over the entries left to visit: updated is
\* the list built so far, found_ext whether an entry of ext was replaced.
RECURSIVE UpdateFormatsLoop(_, _, _, _, _)
UpdateFormatsLoop(rest, ext, format_name, updated_formats, found_ext) ==
    IF rest = <<>> THEN [updated_formats |-> updated_formats, found_ext |-> found_ext]
    ELSE IF rest[1][1] # ext
         THEN UpdateFormatsLoop(Tail(rest), ext, format_name,
                                Append(updated_formats, rest[1]), found_ext)
    ELSE IF ~found_ext
         THEN UpdateFormatsLoop(Tail(rest), ext, format_name,
                                Append(updated_formats, <<ext, format_name>>), TRUE)
    ELSE UpdateFormatsLoop(Tail(rest), ext, format_name, updated_formats, found_ext)

\* A variant of update_formats that appends the entry when the list has no
\* entry of the extension.
UpdateFormatsAppending(formats, ext, format_name) ==
    LET end == UpdateFormatsLoop(formats, ext, format_name, <<>>, FALSE)
    IN  IF end.found_ext THEN end.updated_formats
        ELSE Append(end.updated_formats, <<ext, format_name>>)

\* The loop keeps every entry of another extension, replaces the first entry
\* of ext by (ext, format_name) and skips the later entries of ext.
update_formats(formats, ext, format_name) ==
    UpdateFormatsLoop(formats, ext, format_name, <<>>, FALSE).updated_formats

\* ('.py', None) to 'py': the leading dot is dropped, and the format name is
\* written unless it is None, '', 'markdown' or 'rmarkdown'.
one_format_as_string(ext, format_name) ==
    LET short == IF StartsWith(ext, ".") THEN SliceFrom(ext, 1) ELSE ext
    IN  IF Truthy(format_name) /\ format_name[1] \notin {"markdown", "rmarkdown"}
        THEN short \o ":" \o format_name[1]
        ELSE short

formats_as_string(formats) ==
    Join([i \in 1..Len(formats) |-> one_format_as_string(formats[i][1], formats[i][2])], ",")

(***************************************************************************)
(* Inputs of the specifier round trip: lists of (extension, format name).  *)
(***************************************************************************)
RoundTripExtensions == {".py", ".md", ".lgt.py", ".auto", "py", ".txt"}

RoundTripNames == {None, Some("light"), Some("percent"), Some("markdown"), Some("rmarkdown")}

SeqsUpTo(S, n) == UNION {[1..k -> S] : k \in 0..n}

InitParser ==
    /\ parser \in [pc : {"start"},
                   formats : SeqsUpTo(RoundTripExtensions \X RoundTripNames, MaxFormats),
                   text : {""}, ret : {Parsed(<<>>)}]
    /\ registry = Idle /\ updater = Idle /\ resolver = Idle
    /\ sniffer = Idle /\ guard = Idle /\ migrator = Idle

FormatsAsString ==
    /\ parser.pc = "start"
    /\ parser' = [parser EXCEPT !.pc = "rendered", !.text = formats_as_string(parser.formats)]
    /\ UNCHANGED <<registry, updater, resolver, sniffer, guard, migrator>>

ParseFormats ==
    /\ parser.pc = "rendered"
    /\ parser' = [parser EXCEPT !.pc = "done", !.ret = parse_formats(Some(parser.text))]
    /\ UNCHANGED <<registry, updater, resolver, sniffer, guard, migrator>>

NextParser == FormatsAsString \/ ParseFormats

SpecParser == InitParser /\ [][NextParser]_vars

\* A valid FormatsList: every extension is one parse_one_format accepts and
\* returns unchanged, every format name is None or a name of the registry.
ValidFormatsList(L) ==
    \A i \in 1..Len(L) :
        /\ parse_one_format(L[i][1]) = Parsed(<<L[i][1], None>>)
        /\ L[i][2] = None \/ \E k \in 1..Len(JUPYTEXT_FORMATS) :
                                 L[i][2] = Some(JUPYTEXT_FORMATS[k].format_name)

\* C1 (as stated): parsing the rendering of a valid list gives the list back.
C1_RoundTrip ==
    (parser.pc = "done" /\ ValidFormatsList(parser.formats)) =>
        parser.ret = Parsed(parser.formats)

\* C1 (amended): parsing the rendering of a valid list gives the list back
\* with every format name 'markdown' or 'rmarkdown' replaced by None, entry
\* for entry and in the same order; a valid list that names neither comes
\* back unchanged.
C1_RoundTripUpToMarkupNames ==
    (parser.pc = "done" /\ ValidFormatsList(parser.formats)) =>
        /\ parser.ret.err = ""
        /\ Len(parser.ret.val) = Len(parser.formats)
        /\ \A i \in 1..Len(parser.formats) :
               /\ parser.ret.val[i][1] = parser.formats[i][1]
               /\ parser.ret.val[i][2] =
                      IF parser.formats[i][2] \in {Some("markdown"), Some("rmarkdown")}
                      THEN None ELSE parser.formats[i][2]
        /\ (\A i \in 1..Len(parser.formats) :
               parser.formats[i][2] \notin {Some("markdown"), Some("rmarkdown")})
           => parser.ret.val = parser.formats

\* A valid list of two entries, one naming 'markdown' and one naming a script
\* format under a prefixed extension, has been rendered and parsed back.
C1_Witness ==
    /\ parser.pc = "done"
    /\ parser.formats = << <<".md", Some("markdown")>>, <<".lgt.py", Some("light")>> >>
    /\ parser.text = "md,lgt.py:light"
    /\ parser.ret = Parsed(<< <<".md", None>>, <<".lgt.py", Some("light")>> >>)

(***************************************************************************)
(* The formats list of a notebook: notebook.metadata['jupytext']['formats'] *)
(* under a sequence of update_jupytext_formats_metadata calls.             *)
(***************************************************************************)
\* The new value of the formats entry, or the ValueError of parse_formats.
update_jupytext_formats_metadata(stored, ext, format_name) ==
    LET parsed  == parse_formats(stored)
        formats == update_formats(parsed.val, ext, format_name)
    IN  IF parsed.err # "" THEN [err |-> parsed.err, formats |-> stored]
        ELSE IF formats # <<>> THEN [err |-> "", formats |-> Some(formats_as_string(formats))]
        ELSE [err |-> "", formats |-> stored]

StoredFormats ==
    {None, Some(""), Some("py"), Some("ipynb,py:light"), Some("md:markdown,ipynb"),
     Some("md,py:percent,py:light"), Some("lgt.py:light,R:spin,py"), Some("ipynb,txt")}

UpdateExtensions == {".py", ".md", ".R"}

UpdateNames == {None, Some("light"), Some("hydrogen"), Some("markdown")}

InitUpdater ==
    /\ \E stored \in StoredFormats :
          updater = [formats |-> stored, initial |-> stored, calls |-> 0, recorded |-> {},
                     ext |-> "", format_name |-> None, before |-> None, err |-> ""]
    /\ registry = Idle /\ parser = Idle /\ resolver = Idle
    /\ sniffer = Idle /\ guard = Idle /\ migrator = Idle

UpdateJupytextFormatsMetadata ==
    /\ updater.calls < MaxCalls
    /\ \E ext \in UpdateExtensions, format_name \in UpdateNames :
          LET out == update_jupytext_formats_metadata(updater.formats, ext, format_name)
          IN  updater' = [updater EXCEPT !.formats = out.formats,
                                         !.calls = @ + 1,
                                         !.recorded = IF out.err = "" THEN @ \cup {ext} ELSE @,
                                         !.ext = ext,
                                         !.format_name = format_name,
                                         !.before = updater.formats,
                                         !.err = out.err]
    /\ UNCHANGED <<registry, parser, resolver, sniffer, guard, migrator>>

NextUpdater == UpdateJupytextFormatsMetadata

SpecUpdater == InitUpdater /\ [][NextUpdater]_vars

\* The list a stored formats entry stands for.
StoredList(stored) == parse_formats(stored).val

\* A list as formats_as_string followed by parse_formats gives it back: a
\* format name that is not written comes back as None.
AsReserialized(L) ==
    [i \in 1..Len(L) |->
        <<L[i][1], IF L[i][2] \in {None, Some(""), Some("markdown"), Some("rmarkdown")}
                   THEN None ELSE L[i][2]>>]

\* C8 (as stated): a call replaces the first entry of ext in place and leaves
\* every other entry as it was, or appends (ext, name) when the list has no
\* entry of ext; every recorded extension has an entry in the list.
C8_ReplaceOrAppend ==
    (updater.calls > 0 /\ updater.err = "") =>
        LET old  == StoredList(updater.before)
            new  == StoredList(updater.formats)
            hits == {i \in 1..Len(old) : old[i][1] = updater.ext}
        IN  /\ hits # {} =>
                   /\ Len(new) = Len(old)
                   /\ \A i \in 1..Len(old) :
                          new[i] = IF i = CHOOSE h \in hits : \A j \in hits : h <= j
                                   THEN <<updater.ext, updater.format_name>> ELSE old[i]
            /\ hits = {} => new = Append(old, <<updater.ext, updater.format_name>>)
            /\ \A e \in updater.recorded : \E i \in 1..Len(new) : new[i][1] = e

\* C8 (amended): when the list has an entry of ext, a call replaces the first
\* one in place by (ext, name) and removes the later entries of ext; every
\* entry of another extension keeps its relative position and its value as
\* re-serialized (a name 'markdown' or 'rmarkdown' is not written). When the
\* list has no entry of ext (an empty or missing list included) nothing is
\* appended: the stored value is left alone if the list is empty, and is the
\* re-serialized list otherwise. After any sequence of calls the list has
\* entries for exactly the extensions it had entries for at the start.
C8_ReplaceFirstDropRest ==
    (updater.calls > 0 /\ updater.err = "") =>
        LET old    == StoredList(updater.before)
            new    == StoredList(updater.formats)
            start  == StoredList(updater.initial)
            hits   == {i \in 1..Len(old) : old[i][1] = updater.ext}
            first  == CHOOSE h \in hits : \A j \in hits : h <= j
            others == SelectSeq(SubSeq(old, first + 1, Len(old)),
                                LAMBDA e : e[1] # updater.ext)
        IN  /\ hits # {} =>
                   new = AsReserialized(SubSeq(old, 1, first - 1)
                                        \o << <<updater.ext, updater.format_name>> >>
                                        \o others)
            /\ (hits = {} /\ old = <<>>) => updater.formats = updater.before
            /\ (hits = {} /\ old # <<>>) => new = AsReserialized(old)
            /\ {new[i][1] : i \in 1..Len(new)} = {start[i][1] : i \in 1..Len(start)}

\* A call for .py on a list with two entries of .py has replaced the first
\* and removed the second, and a call for .R on it has appended nothing.
C8_Witness ==
    /\ updater.calls = 2
    /\ updater.initial = Some("md,py:percent,py:light")
    /\ updater.recorded = {".py", ".R"}
    /\ updater.ext = ".R"
    /\ updater.before = Some("md,py:hydrogen")
    /\ updater.formats = Some("md,py:hydrogen")
    /\ updater.err = ""

(***************************************************************************)
(* Notebook metadata: a dict with an Optional field per key the code reads. *)
(* kernelspec stands for any key the code does not read.                   *)
(***************************************************************************)
EmptyTextRepresentation ==
    [extension |-> None, format_name |-> None, format_version |-> None]

EmptyFilters == [notebook |-> None, cells |-> None]

EmptyJupytext ==
    [formats |-> None, text_representation |-> None, main_language |-> None,
     encoding |-> None, executable |-> None, metadata_filter |-> None,
     notebook_metadata_filter |-> None, cell_metadata_filter |-> None]

EmptyMetadata ==
    [nbrmd_formats |-> None, nbrmd_format_version |-> None,
     jupytext_formats |-> None, jupytext_format_version |-> None,
     main_language |-> None, encoding |-> None, executable |-> None,
     kernelspec |-> None, language_info |-> None, jupytext |-> None]

\* set(d): the keys a dict holds.
Keys(d) == {k \in DOMAIN d : d[k] # None}

\* d.get(key, {}) for a dict-valued key.
GetDict(d, key, empty) == IF d[key] = None THEN empty ELSE d[key][1]

\* Script extension from kernel information.
auto_ext_from_metadata(metadata) ==
    LET auto_ext == GetDict(metadata, "language_info", [file_extension |-> None]).file_extension
    IN  IF auto_ext = Some(".r") THEN Some(".R") ELSE auto_ext

Named(format_name) == [err |-> "", val |-> format_name]

Raised(kind) == [err |-> kind, val |-> None]

\* The first entry of the formats list that decides the format name: its
\* extension ends with ext, or is .auto with ext ending with the kernel's
\* extension, and it has a format name unless any entry will do.
FirstDecidingEntry(formats, ext, auto_ext, explicit_default) ==
    LET deciding == {i \in 1..Len(formats) :
                        /\ \/ EndsWith(formats[i][1], ext)
                           \/ /\ EndsWith(formats[i][1], ".auto")
                              /\ Truthy(auto_ext)
                              /\ EndsWith(ext, auto_ext[1])
                        /\ (~explicit_default) \/ Truthy(formats[i][2])}
    IN  IF deciding = {} THEN None
        ELSE Some(formats[CHOOSE i \in deciding : \A j \in deciding : i <= j])

\* The part of format_name_for_ext that follows the text representation.
FormatNameFromFormats(metadata, ext, cm_default_formats, explicit_default) ==
    LET auto_ext == auto_ext_from_metadata(metadata)
        stored   == GetDict(metadata, "jupytext", EmptyJupytext).formats
        formats  == IF Truthy(stored) THEN stored ELSE cm_default_formats
        parsed   == parse_formats(formats)
        entry    == FirstDecidingEntry(parsed.val, ext, auto_ext, explicit_default)
        default  == get_format_implementation(ext, None)
    IN  IF parsed.err # "" THEN Raised(parsed.err)
        ELSE IF entry # None THEN Named(entry[1][2])
        ELSE IF (~explicit_default) \/ ext \in {".Rmd", ".md"} THEN Named(None)
        ELSE IF default.err # "" THEN Raised(default.err)
        ELSE IF default.fmt = None THEN Raised("AttributeError: None has no format_name")
        ELSE Named(Some(default.fmt[1].format_name))

\* A variant of format_name_for_ext that does not read the text
\* representation.
FormatNameForExtFromFormatsOnly(metadata, ext, cm_default_formats, explicit_default) ==
    FormatNameFromFormats(metadata, ext, cm_default_formats, explicit_default)

\* The format name for that extension: from the text representation if it
\* names the extension and a format, else from the formats list, else the
\* default.
format_name_for_ext(metadata, ext, cm_default_formats, explicit_default) ==
    LET text_repr == GetDict(metadata, "jupytext", EmptyJupytext).text_representation
    IN  IF /\ text_repr # None
           /\ Keys(text_repr[1]) # {}
           /\ text_repr[1].extension = Some(ext)
           /\ Truthy(text_repr[1].format_name)
        THEN Named(text_repr[1].format_name)
        ELSE FormatNameFromFormats(metadata, ext, cm_default_formats, explicit_default)

(***************************************************************************)
(* Inputs of the format resolver.                                          *)
(***************************************************************************)
TextRepresentations(extensions, names, versions) ==
    [extension : extensions, format_name : names, format_version : versions]

WithJupytext(block) == [EmptyMetadata EXCEPT !.jupytext = Some(block)]

ResolverTextRepresentations ==
    {None, Some(EmptyTextRepresentation)}
    \cup {Some(t) : t \in TextRepresentations(
              {Some(".py"), Some(".md")},
              {None, Some(""), Some("percent"), Some("sphinx")},
              {Some("1.1")})}

ResolverFormats ==
    {None, Some(""), Some("py:light"), Some("ipynb,py"), Some("lgt.py:hydrogen,py:light"),
     Some("auto:percent"), Some("auto,py:percent"), Some("md,txt")}

ResolverMetadata ==
    {[EmptyMetadata EXCEPT
          !.jupytext = IF t = None /\ f = None THEN None
                       ELSE Some([EmptyJupytext EXCEPT !.text_representation = t,
                                                       !.formats = f]),
          !.language_info = l] :
        t \in ResolverTextRepresentations, f \in ResolverFormats,
        l \in {None, Some([file_extension |-> Some(".py")]),
               Some([file_extension |-> Some(".r")])}}

InitResolver ==
    /\ resolver \in [pc : {"start"}, metadata : ResolverMetadata,
                     ext : {".py", ".md", ".R", ".ipynb", ".txt"},
                     cm_default_formats : {None, Some("py:percent"), Some("ipynb,md")},
                     explicit_default : BOOLEAN, ret : {Named(None)}]
    /\ registry = Idle /\ parser = Idle /\ updater = Idle
    /\ sniffer = Idle /\ guard = Idle /\ migrator = Idle

FormatNameForExt ==
    /\ resolver.pc = "start"
    /\ resolver' = [resolver EXCEPT !.pc = "done",
                       !.ret = format_name_for_ext(resolver.metadata, resolver.ext,
                                                   resolver.cm_default_formats,
                                                   resolver.explicit_default)]
    /\ UNCHANGED <<registry, parser, updater, sniffer, guard, migrator>>

NextResolver == FormatNameForExt

SpecResolver == InitResolver /\ [][NextResolver]_vars

\* C5: when the text representation of the document names exactly the
\* queried extension and carries a non-empty format name, that name is the
\* result, whatever the formats list, the default formats, the kernel
\* language and explicit_default are.
C5_TextRepresentationWins ==
    resolver.pc = "done" =>
        LET jupytext  == resolver.metadata.jupytext
            text_repr == IF jupytext = None THEN None ELSE jupytext[1].text_representation
        IN  (/\ text_repr # None
             /\ text_repr[1].extension = Some(resolver.ext)
             /\ text_repr[1].format_name \notin {None, Some("")})
                => resolver.ret = [err |-> "", val |-> text_repr[1].format_name]

\* The text representation declares sphinx for .py and the formats list
\* declares light for .py; the name for .py has been resolved to sphinx.
C5_Witness ==
    /\ resolver.pc = "done"
    /\ resolver.ext = ".py"
    /\ resolver.metadata.jupytext # None
    /\ resolver.metadata.jupytext[1].formats = Some("py:light")
    /\ resolver.metadata.jupytext[1].text_representation # None
    /\ resolver.metadata.jupytext[1].text_representation[1].extension = Some(".py")
    /\ resolver.metadata.jupytext[1].text_representation[1].format_name = Some("sphinx")
    /\ resolver.cm_default_formats = Some("py:percent")
    /\ resolver.ret = Named(Some("sphinx"))

\* The text representation of the resolved document, when it has one.
ResolverTextRepresentation ==
    IF resolver.metadata.jupytext = None THEN None
    ELSE resolver.metadata.jupytext[1].text_representation

\* The formats list the resolver scans: the document's own, or the default
\* list when the document has none.
ResolverScannedFormats ==
    LET jupytext == resolver.metadata.jupytext
        stored   == IF jupytext = None THEN None ELSE jupytext[1].formats
    IN  parse_formats(IF stored \in {None, Some("")} THEN resolver.cm_default_formats
                      ELSE stored)

\* The first entry of the scanned list whose extension is the queried one,
\* or is .auto with the kernel's extension being the queried one.
FirstMatchingEntry ==
    LET formats  == ResolverScannedFormats.val
        auto_ext == auto_ext_from_metadata(resolver.metadata)
        matching == {i \in 1..Len(formats) :
                        \/ formats[i][1] = resolver.ext
                        \/ formats[i][1] = ".auto" /\ auto_ext = Some(resolver.ext)}
    IN  IF matching = {} THEN None
        ELSE Some(formats[CHOOSE i \in matching : \A j \in matching : i <= j])

\* C11: when the text representation does not declare a format for the
\* queried extension, the first entry of the scanned formats list that
\* matches the extension exactly, or is .auto resolving to it, decides the
\* result: its format name if it has one; otherwise none when
\* explicit_default is false or the extension is .md or .Rmd, and the default
\* format of the extension else. Later entries, and entries whose extension
\* only ends with the queried one, change nothing.
C11_FirstMatchingEntryWins ==
    (/\ resolver.pc = "done"
     /\ resolver.ext \in {".py", ".md", ".R"}
     /\ ~(/\ ResolverTextRepresentation # None
          /\ ResolverTextRepresentation[1].extension = Some(resolver.ext)
          /\ ResolverTextRepresentation[1].format_name \notin {None, Some("")})
     /\ ResolverScannedFormats.err = "") =>
        LET entry == FirstMatchingEntry
        IN  resolver.ret =
                Named(IF entry # None /\ entry[1][2] \notin {None, Some("")}
                      THEN entry[1][2]
                      ELSE IF (~resolver.explicit_default) \/ resolver.ext \in {".md", ".Rmd"}
                      THEN None
                      ELSE Some(get_format_implementation(resolver.ext, None)
                                    .fmt[1].format_name))

\* C11 (a state that departs from the claim): the formats list is
\* 'lgt.py:hydrogen,py:light', the document has no text representation, and
\* the name for .py has been resolved to hydrogen, the name of the entry
\* whose extension .lgt.py only ends with .py.
C11_Witness ==
    /\ resolver.pc = "done"
    /\ resolver.ext = ".py"
    /\ ResolverTextRepresentation = None
    /\ resolver.metadata.jupytext # None
    /\ resolver.metadata.jupytext[1].formats = Some("lgt.py:hydrogen,py:light")
    /\ resolver.ret = Named(Some("hydrogen"))

\* C11 (a second state that departs from the claim): the formats list is
\* 'auto,py:percent', the kernel's extension is .py and explicit_default is
\* true; the first matching entry has no name, and the name for .py has been
\* resolved to percent, the name of a later entry.
C11_LaterEntryDecides ==
    /\ resolver.pc = "done"
    /\ resolver.ext = ".py"
    /\ resolver.explicit_default
    /\ ResolverTextRepresentation = None
    /\ resolver.metadata.jupytext # None
    /\ resolver.metadata.jupytext[1].formats = Some("auto,py:percent")
    /\ auto_ext_from_metadata(resolver.metadata) = Some(".py")
    /\ resolver.ret = Named(Some("percent"))

(***************************************************************************)
(* The version guard.                                                      *)
(***************************************************************************)
Returned == [err |-> "", detail |-> <<>>]

Failed(kind) == [err |-> kind, detail |-> <<>>]

\* The ValueError of check_file_version, with the values its message holds.
NotSafeToOverride(source_path, version, current, outputs_path) ==
    [err |-> "ValueError: not safe to override",
     detail |-> <<BaseName(source_path),
                  IF version = None THEN "None" ELSE version[1],
                  current, BaseName(outputs_path)>>]

\* The steps of check_file_version after the format is found. The chained
\* comparison orders str values; with a version of None it raises TypeError
\* under Python 3 and is false under Python 2, which orders None first.
CheckVersion(metadata, fmt, recorded, assume_current, source_path, outputs_path, py2) ==
    LET current == fmt.current_version_number
        version == IF assume_current THEN Some(current) ELSE recorded
        floor   == IF Truthy(fmt.min_readable_version_number)
                   THEN fmt.min_readable_version_number[1] ELSE current
    IN  IF version = Some(current) THEN Returned
        ELSE IF version = None /\ ~py2 THEN Failed("TypeError: str <= NoneType")
        ELSE IF version # None /\ StrLE(floor, version[1]) /\ StrLE(version[1], current)
             THEN Returned
        ELSE IF source_path = outputs_path THEN Returned
        ELSE NotSafeToOverride(source_path, version, current, outputs_path)

\* Raise if the file version in the source file would override outputs.
\* enabled is the value of insert_or_test_version_number(); a missing version
\* is taken for the current one when the document has metadata.
check_file_version(metadata, source_path, outputs_path, enabled, py2) ==
    LET ext         == SplitExt(source_path)[2]
        jupytext    == GetDict(metadata, "jupytext", EmptyJupytext)
        recorded    == GetDict(jupytext, "text_representation",
                               EmptyTextRepresentation).format_version
        format_name == format_name_for_ext(metadata, ext, None, TRUE)
        fmt         == get_format_implementation(ext, format_name.val)
    IN  IF ~enabled THEN Returned
        ELSE IF EndsWith(ext, ".ipynb") THEN Returned
        ELSE IF format_name.err # "" THEN Failed(format_name.err)
        ELSE IF fmt.err # "" THEN Failed(fmt.err)
        ELSE CheckVersion(metadata, fmt.fmt[1], recorded,
                          Keys(metadata) # {} /\ ~Truthy(recorded),
                          source_path, outputs_path, py2)

(***************************************************************************)
(* Inputs of the version guard.                                            *)
(***************************************************************************)
RecordedVersions ==
    {None, Some(""), Some("0.9"), Some("1.0"), Some("1.1"), Some("1.2"), Some("1.3"),
     Some("1.4"), Some("1.10"), Some("2.0")}

GuardMetadata ==
    {EmptyMetadata, WithJupytext(EmptyJupytext),
     [EmptyMetadata EXCEPT !.kernelspec = Some("python3")]}
    \cup {WithJupytext([EmptyJupytext EXCEPT !.text_representation = Some(t)]) :
             t \in TextRepresentations(
                 {None, Some(".py")},
                 {None, Some("light"), Some("percent"), Some("sphinx"), Some("unknown")},
                 RecordedVersions)}

SourcePaths == {"nb.py", "dir/nb.py", "nb.md", "nb.R", "nb.ipynb", "nb.txt"}

InitGuard ==
    /\ \E source_path \in SourcePaths :
          guard \in [pc : {"start"}, metadata : GuardMetadata, source_path : {source_path},
                     outputs_path : {"dir/nb.ipynb", source_path},
                     enabled : BOOLEAN, py2 : BOOLEAN, ret : {Returned}]
    /\ registry = Idle /\ parser = Idle /\ updater = Idle
    /\ resolver = Idle /\ sniffer = Idle /\ migrator = Idle

CheckFileVersion ==
    /\ guard.pc = "start"
    /\ guard' = [guard EXCEPT !.pc = "done",
                    !.ret = check_file_version(guard.metadata, guard.source_path,
                                               guard.outputs_path, guard.enabled, guard.py2)]
    /\ UNCHANGED <<registry, parser, updater, resolver, sniffer, migrator>>

NextGuard == CheckFileVersion

SpecGuard == InitGuard /\ [][NextGuard]_vars

\* The decimal value of a string of digits.
RECURSIVE DecimalValue(_)
DecimalValue(digits) ==
    IF digits = "" THEN 0
    ELSE 10 * DecimalValue(SubSeq(digits, 1, Len(digits) - 1))
         + (CodePoint(SubSeq(digits, Len(digits), Len(digits))) - 48)

IsMajorMinor(v) ==
    LET parts == Split(v, ".")
    IN  /\ Len(parts) = 2
        /\ \A k \in 1..2 : /\ parts[k] # ""
                           /\ \A i \in 1..Len(parts[k]) : IsDigit(SubSeq(parts[k], i, i))

\* a <= b for two major.minor versions, compared number by number.
VersionLE(a, b) ==
    LET x == Split(a, ".")
        y == Split(b, ".")
    IN  \/ DecimalValue(x[1]) < DecimalValue(y[1])
        \/ /\ DecimalValue(x[1]) = DecimalValue(y[1])
           /\ DecimalValue(x[2]) <= DecimalValue(y[2])

GuardExtension == SplitExt(guard.source_path)[2]

GuardRecordedVersion ==
    IF guard.metadata.jupytext = None \/ guard.metadata.jupytext[1].text_representation = None
    THEN None
    ELSE guard.metadata.jupytext[1].text_representation[1].format_version

\* The description the guard checks the version against, when there is one.
GuardFormat ==
    LET name == format_name_for_ext(guard.metadata, GuardExtension, None, TRUE)
    IN  IF name.err # "" THEN None
        ELSE get_format_implementation(GuardExtension, name.val).fmt

\* C3: with the guard enabled, a source that is not .ipynb and distinct
\* paths, a recorded version v is accepted exactly when
\* min readable (or current) <= v <= current, the versions being compared
\* number by number; every other v fails with the not-safe-to-override error.
C3_NumericWindow ==
    (/\ guard.pc = "done" /\ guard.enabled
     /\ ~EndsWith(GuardExtension, ".ipynb")
     /\ guard.source_path # guard.outputs_path
     /\ Truthy(GuardRecordedVersion) /\ IsMajorMinor(GuardRecordedVersion[1])
     /\ GuardFormat # None) =>
        LET v       == GuardRecordedVersion[1]
            current == GuardFormat[1].current_version_number
            floor   == IF GuardFormat[1].min_readable_version_number = None THEN current
                       ELSE GuardFormat[1].min_readable_version_number[1]
            inside  == VersionLE(floor, v) /\ VersionLE(v, current)
        IN  /\ inside <=> guard.ret.err = ""
            /\ ~inside => guard.ret.err = "ValueError: not safe to override"

\* C3 (a state that departs from the claim): the light script nb.py records
\* the version 1.10, above the current 1.3, and the guard has accepted it
\* for another file.
C3_Witness ==
    /\ guard.pc = "done" /\ guard.enabled
    /\ guard.source_path = "nb.py" /\ guard.outputs_path = "dir/nb.ipynb"
    /\ GuardRecordedVersion = Some("1.10")
    /\ GuardFormat # None /\ GuardFormat[1].current_version_number = "1.3"
    /\ guard.ret = Returned

\* C3 (the versions the claim lists): for the light format, current 1.3 and
\* min readable 1.1, the guard accepts 1.1, 1.2 and 1.3 and rejects 1.0 and
\* 1.4.
C3_ListedVersions ==
    (/\ guard.pc = "done" /\ guard.enabled
     /\ guard.source_path # guard.outputs_path
     /\ GuardFormat # None
     /\ GuardFormat[1].current_version_number = "1.3"
     /\ GuardFormat[1].min_readable_version_number = Some("1.1")) =>
        /\ GuardRecordedVersion \in {Some("1.1"), Some("1.2"), Some("1.3")}
               => guard.ret.err = ""
        /\ GuardRecordedVersion \in {Some("1.0"), Some("1.4")}
               => guard.ret.err = "ValueError: not safe to override"

\* C9: the guard returns without an error when the two paths are the same,
\* when it is disabled and when the source is a .ipynb file, whatever the
\* recorded version and the metadata are. Stated for the documents whose
\* extension and format name the registry knows.
C9_PureReadNeverRaises ==
    (/\ guard.pc = "done"
     /\ \/ guard.source_path = guard.outputs_path
        \/ ~guard.enabled
        \/ EndsWith(GuardExtension, ".ipynb")
     /\ EndsWith(GuardExtension, ".ipynb") \/ GuardFormat # None) =>
        guard.ret.err = ""

\* C9 (a state that departs from the claim): a script with no metadata has
\* been checked against itself and the guard has ended with an error.
C9_Witness ==
    /\ guard.pc = "done" /\ guard.enabled
    /\ guard.source_path = "nb.py" /\ guard.outputs_path = "nb.py"
    /\ guard.metadata = EmptyMetadata
    /\ guard.ret.err # ""

\* C10 (as stated): a document with no metadata at all is accepted, the
\* guard being enabled and the paths distinct.
C10_EmptyMetadataAccepted ==
    (/\ guard.pc = "done" /\ guard.enabled
     /\ guard.source_path # guard.outputs_path
     /\ GuardFormat # None
     /\ Keys(guard.metadata) = {}) =>
        guard.ret.err = ""

\* C10 (what the guard does): a document that has metadata but records no
\* format version is taken to be at the current version of its format and is
\* accepted, the guard being enabled and the paths distinct; a document with
\* no metadata at all is not accepted.
C10_MetadataWithoutVersionAccepted ==
    (/\ guard.pc = "done" /\ guard.enabled
     /\ guard.source_path # guard.outputs_path
     /\ ~EndsWith(GuardExtension, ".ipynb")
     /\ GuardFormat # None) =>
        /\ (Keys(guard.metadata) # {} /\ GuardRecordedVersion \in {None, Some("")})
               => guard.ret = Returned
        /\ Keys(guard.metadata) = {} => guard.ret.err # ""

\* C10 (a state that departs from the claim): a script with no metadata has
\* been checked against another file and the guard has ended with an error.
C10_Witness ==
    /\ guard.pc = "done" /\ guard.enabled
    /\ guard.source_path = "nb.py"
    /\ guard.outputs_path = "dir/nb.ipynb"
    /\ guard.metadata = EmptyMetadata
    /\ guard.ret.err # ""

(***************************************************************************)
(* The format sniffer. A text is its lines and the metadata of its header, *)
(* which header_to_metadata_and_cell finds under one comment prefix.       *)
(***************************************************************************)
\* header.header_to_metadata_and_cell(lines, comment): the metadata of the
\* header, when the header is written with that comment prefix.
header_to_metadata_and_cell(text, comment) ==
    IF comment = text.header_prefix THEN text.header ELSE EmptyMetadata

\* Return the header metadata.
read_metadata(text, ext0) ==
    LET pieces   == Split(ext0, ".")
        ext      == "." \o pieces[Len(pieces)]
        comment  == IF ext \in {".md", ".Rmd"} THEN ""
                    ELSE IF IsScriptExtension(ext) THEN ScriptComment(ext) ELSE "#"
        metadata == header_to_metadata_and_cell(text, comment)
    IN  IF ext \in {".r", ".R"} /\ Keys(metadata) = {}
        THEN header_to_metadata_and_cell(text, "#'")
        ELSE metadata

\* stringparser.StringParser.read_line followed by is_quoted: every string
\* delimiter of the line opens or closes a string literal.
RECURSIVE StringParserReadLine(_, _, _)
StringParserReadLine(quoted, line, language) ==
    IF Len(line) < 3 THEN quoted
    ELSE IF SliceTo(line, 3) = "\"\"\""
         THEN StringParserReadLine(~quoted, SliceFrom(line, 3), language)
    ELSE StringParserReadLine(quoted, SliceFrom(line, 1), language)

IsSpace(c) == c \in {" ", "\t"}

\* ^(%|%%|%%%)[a-zA-Z]
MagicRe(line) ==
    \E n \in 1..3 : /\ \A i \in 0..(n - 1) : CharAt(line, i) = "%"
                    /\ IsLetter(CharAt(line, n))

\* ^{comment}( %%|%%)$
DoublePercentRe(line, comment) ==
    line \in {comment \o " %%", comment \o "%%"}

\* ^{comment}( %%|%%)\s
DoublePercentAndSpaceRe(line, comment) ==
    \E marker \in {comment \o " %%", comment \o "%%"} :
        StartsWith(line, marker) /\ IsSpace(CharAt(line, Len(marker)))

\* ^{comment}( <codecell>| In\[[0-9 ]*\]:?)
NbconvertScriptRe(line, comment) ==
    \/ StartsWith(line, comment \o " <codecell>")
    \/ /\ StartsWith(line, comment \o " In[")
       /\ LET rest == SliceFrom(line, Len(comment) + 4)
          IN  \E k \in 0..(Len(rest) - 1) :
                  /\ CharAt(rest, k) = "]"
                  /\ \A j \in 0..(k - 1) : IsDigit(CharAt(rest, j)) \/ CharAt(rest, j) = " "

\* ''.join(['#'] * 20)
TwentyHash == Join([i \in 1..20 |-> "#"], "")

NoCounts ==
    [quoted |-> FALSE, twenty_hash_count |-> 0, double_percent_count |-> 0,
     magic_command_count |-> 0]

\* The loop of guess_format over the lines left to read.
RECURSIVE CountMarkers(_, _, _, _)
CountMarkers(lines, ext, comment, counts) ==
    IF lines = <<>> THEN counts
    ELSE LET line   == lines[1]
             quoted == StringParserReadLine(counts.quoted, line,
                                            IF ext \in {".r", ".R"} THEN "R" ELSE "python")
             dp     == \/ DoublePercentRe(line, comment)
                       \/ DoublePercentAndSpaceRe(line, comment)
                       \/ NbconvertScriptRe(line, comment)
             hash   == StartsWith(line, TwentyHash) /\ ext = ".py"
         IN  CountMarkers(Tail(lines), ext, comment,
                 IF quoted THEN [counts EXCEPT !.quoted = TRUE]
                 ELSE [quoted |-> FALSE,
                       double_percent_count |->
                           counts.double_percent_count + (IF dp THEN 1 ELSE 0),
                       magic_command_count |->
                           counts.magic_command_count + (IF MagicRe(line) THEN 1 ELSE 0),
                       twenty_hash_count |->
                           counts.twenty_hash_count + (IF hash THEN 1 ELSE 0)])

\* Guess the format of the file, given its extension and content;
\* sphinx_lines is the number of twenty-hash lines that make a script a
\* Sphinx-gallery script.
GuessFormatWith(text, ext, sphinx_lines) ==
    LET metadata == read_metadata(text, ext)
        managed  == \/ /\ metadata.jupytext # None
                       /\ Keys(metadata.jupytext[1])
                              \ {"encoding", "executable", "main_language"} # {}
                    \/ Keys(metadata) \ {"jupytext"} # {}
        counts   == CountMarkers(text.lines, ext, ScriptComment(ext), NoCounts)
        default  == get_format_implementation(ext, None)
    IN  IF managed THEN format_name_for_ext(metadata, ext, None, TRUE)
        ELSE IF IsScriptExtension(ext) /\ counts.double_percent_count >= 1
             THEN IF counts.magic_command_count > 0 THEN Named(Some("hydrogen"))
                  ELSE Named(Some("percent"))
        ELSE IF IsScriptExtension(ext) /\ counts.twenty_hash_count >= sphinx_lines
             THEN Named(Some("sphinx"))
        ELSE IF default.err # "" THEN Raised(default.err)
        ELSE IF default.fmt = None THEN Raised("AttributeError: None has no format_name")
        ELSE Named(Some(default.fmt[1].format_name))

\* A variant of guess_format for which one twenty-hash line is enough.
GuessFormatOneHashLine(text, ext) == GuessFormatWith(text, ext, 1)

guess_format(text, ext) == GuessFormatWith(text, ext, 2)

(***************************************************************************)
(* Inputs of the sniffer.                                                  *)
(***************************************************************************)
SnifferLines ==
    {"# %%", "#%% title", "# %%time", "%%time", TwentyHash, "x = 1", "\"\"\"",
     "// %%", "# In[1]:"}

\* The headers of the sniffed texts, each with the extensions it is read
\* under.
SnifferHeaders ==
    {[header |-> EmptyMetadata, header_prefix |-> "#", exts |-> {".py", ".R", ".cpp", ".md"}],
     [header |-> WithJupytext([EmptyJupytext EXCEPT !.main_language = Some("python")]),
      header_prefix |-> "#", exts |-> {".py"}],
     [header |-> WithJupytext([EmptyJupytext EXCEPT !.formats = Some("py:percent")]),
      header_prefix |-> "#", exts |-> {".py"}],
     [header |-> [EmptyMetadata EXCEPT !.kernelspec = Some("ir")],
      header_prefix |-> "#'", exts |-> {".py", ".R"}]}

InitSniffer ==
    /\ \E h \in SnifferHeaders, l \in SeqsUpTo(SnifferLines, MaxLines) :
          \E ext \in h.exts :
              sniffer = [pc |-> "start",
                         text |-> [lines |-> l, header |-> h.header,
                                   header_prefix |-> h.header_prefix],
                         ext |-> ext, ret |-> Named(None)]
    /\ registry = Idle /\ parser = Idle /\ updater = Idle
    /\ resolver = Idle /\ guard = Idle /\ migrator = Idle

GuessFormat ==
    /\ sniffer.pc = "start"
    /\ sniffer' = [sniffer EXCEPT !.pc = "done",
                      !.ret = guess_format(sniffer.text, sniffer.ext)]
    /\ UNCHANGED <<registry, parser, updater, resolver, guard, migrator>>

NextSniffer == GuessFormat

SpecSniffer == InitSniffer /\ [][NextSniffer]_vars

\* The lines of the sniffed text that lie outside string literals: those
\* with an even number of triple-quote lines up to and including them.
UnquotedLines ==
    {i \in 1..Len(sniffer.text.lines) :
        Cardinality({j \in 1..i : sniffer.text.lines[j] = "\"\"\""}) % 2 = 0}

DoublePercentMarkers(ext) ==
    IF ext = ".cpp" THEN {"// %%"} ELSE {"# %%", "#%% title", "# In[1]:"}

\* C6: for a script whose header holds no managed metadata, the sniffer
\* counts the lines outside string literals and answers hydrogen with a
\* double-percent marker and a magic command, percent with a double-percent
\* marker and no magic command, sphinx with no double-percent marker and two
\* or more twenty-hash lines (counted for .py only), and the default format
\* of the extension otherwise.
C6_SnifferDecision ==
    (/\ sniffer.pc = "done"
     /\ sniffer.ext \in {".py", ".R", ".cpp"}
     /\ LET metadata == read_metadata(sniffer.text, sniffer.ext)
        IN  /\ Keys(metadata) \subseteq {"jupytext"}
            /\ metadata.jupytext # None =>
                   Keys(metadata.jupytext[1]) \subseteq {"encoding", "executable", "main_language"}) =>
        LET lines   == sniffer.text.lines
            markers == {i \in UnquotedLines : lines[i] \in DoublePercentMarkers(sniffer.ext)}
            magics  == {i \in UnquotedLines : lines[i] = "%%time"}
            breaks  == {i \in UnquotedLines : lines[i] = TwentyHash /\ sniffer.ext = ".py"}
        IN  sniffer.ret =
                [err |-> "",
                 val |-> Some(IF markers # {} /\ magics # {} THEN "hydrogen"
                              ELSE IF markers # {} THEN "percent"
                              ELSE IF Cardinality(breaks) >= 2 THEN "sphinx"
                              ELSE IF sniffer.ext = ".R" THEN "spin"
                              ELSE "light")]

\* A .py script of MaxLines lines, two of them twenty-hash lines outside
\* string literals, has been sniffed as sphinx.
C6_Witness ==
    /\ sniffer.pc = "done"
    /\ sniffer.ext = ".py"
    /\ sniffer.text.header = EmptyMetadata
    /\ Len(sniffer.text.lines) = MaxLines
    /\ \E i, j \in UnquotedLines : i # j /\ sniffer.text.lines[i] = TwentyHash
                                         /\ sniffer.text.lines[j] = TwentyHash
    /\ sniffer.ret = Named(Some("sphinx"))

(***************************************************************************)
(* The metadata migration. A metadata filter is a str or a dict with the   *)
(* keys additional and excluded, each the str 'all' or a list of names.    *)
(***************************************************************************)
FilterText(text) == [kind |-> "str", text |-> text, additional |-> None, excluded |-> None]

FilterDict(additional, excluded) ==
    [kind |-> "dict", text |-> "", additional |-> additional, excluded |-> excluded]

AllKeys == [kind |-> "all", names |-> <<>>]

NameList(names) == [kind |-> "list", names |-> names]

\* Backward compatibility with nbrmd: the nbrmd_ keys become jupytext_ keys.
RenameNbrmdKeys(metadata) ==
    LET formats == IF metadata.nbrmd_formats # None
                   THEN [metadata EXCEPT !.jupytext_formats = metadata.nbrmd_formats,
                                         !.nbrmd_formats = None]
                   ELSE metadata
    IN  IF formats.nbrmd_format_version # None
        THEN [formats EXCEPT !.jupytext_format_version = formats.nbrmd_format_version,
                             !.nbrmd_format_version = None]
        ELSE formats

\* The jupytext block popped from the metadata, with the flat keys of the
\* metadata moved into it.
FoldFlatKeys(metadata) ==
    LET block == GetDict(metadata, "jupytext", EmptyJupytext)
    IN  [metadata |-> [metadata EXCEPT !.jupytext = None, !.jupytext_formats = None,
                                       !.jupytext_format_version = None,
                                       !.main_language = None, !.encoding = None,
                                       !.executable = None],
         jupytext |->
            [block EXCEPT
                !.formats = IF metadata.jupytext_formats # None
                            THEN metadata.jupytext_formats ELSE @,
                !.text_representation =
                    IF metadata.jupytext_format_version # None
                    THEN Some([EmptyTextRepresentation EXCEPT
                                  !.format_version = metadata.jupytext_format_version])
                    ELSE @,
                !.main_language = IF metadata.main_language # None
                                  THEN metadata.main_language ELSE @,
                !.encoding = IF metadata.encoding # None THEN metadata.encoding ELSE @,
                !.executable = IF metadata.executable # None THEN metadata.executable ELSE @]]

\* The metadata_filter block popped from the jupytext block, its notebook and
\* cells entries written to the two filter keys.
FoldMetadataFilter(block) ==
    LET filters == GetDict(block, "metadata_filter", EmptyFilters)
    IN  [block EXCEPT
            !.metadata_filter = None,
            !.notebook_metadata_filter = IF filters.notebook # None THEN filters.notebook ELSE @,
            !.cell_metadata_filter = IF filters.cells # None THEN filters.cells ELSE @]

\* A variant of the flattening that does not mark the excluded names.
FlattenFilterUnmarked(filter) ==
    LET additional == IF filter.additional = None THEN NameList(<<>>) ELSE filter.additional[1]
        excluded   == IF filter.excluded = None THEN NameList(<<>>) ELSE filter.excluded[1]
        entries    == IF additional = AllKeys THEN <<"all">> ELSE additional.names
    IN  FilterText(Join(IF excluded = AllKeys THEN Append(entries, "all")
                        ELSE entries \o excluded.names, ","))

\* The str for a filter dict: the additional names, then the excluded names
\* each after a '-', joined by commas.
FlattenFilter(filter) ==
    LET additional == IF filter.additional = None THEN NameList(<<>>) ELSE filter.additional[1]
        excluded   == IF filter.excluded = None THEN NameList(<<>>) ELSE filter.excluded[1]
        entries    == IF additional = AllKeys THEN <<"all">> ELSE additional.names
    IN  FilterText(Join(IF excluded = AllKeys THEN Append(entries, "-all")
                        ELSE entries \o [i \in 1..Len(excluded.names) |->
                                            "-" \o excluded.names[i]], ","))

FlattenFilters(block) ==
    LET flat(value) == IF value # None /\ value[1].kind = "dict"
                       THEN Some(FlattenFilter(value[1])) ELSE value
    IN  [block EXCEPT !.notebook_metadata_filter = flat(@),
                      !.cell_metadata_filter = flat(@)]

\* The jupytext block goes back into the metadata unless it is empty.
Reattach(metadata, block) ==
    IF Keys(block) # {} THEN [metadata EXCEPT !.jupytext = Some(block)] ELSE metadata

\* A variant of the migration that renames the nbrmd_ keys after the flat
\* keys are moved.
RearrangeRenamingLast(metadata) ==
    LET folded == FoldFlatKeys(metadata)
    IN  RenameNbrmdKeys(Reattach(folded.metadata,
                                 FlattenFilters(FoldMetadataFilter(folded.jupytext))))

\* Convert the jupytext_formats metadata entry to jupytext/formats, etc.
rearrange_jupytext_metadata(metadata) ==
    LET folded == FoldFlatKeys(RenameNbrmdKeys(metadata))
    IN  Reattach(folded.metadata, FlattenFilters(FoldMetadataFilter(folded.jupytext)))

(***************************************************************************)
(* Inputs of the migration.                                                *)
(***************************************************************************)
AdditionalNames == {"a", "b"}

ExcludedNames == {"c", "d"}

OptNameValues(names) ==
    {None, Some(AllKeys)} \cup {Some(NameList(l)) : l \in SeqsUpTo(names, MaxNames)}

FilterDicts ==
    {FilterDict(a, e) : a \in OptNameValues(AdditionalNames), e \in OptNameValues(ExcludedNames)}

FilterValues == {FilterText("x,-y")} \cup FilterDicts

\* Metadata of the versions that wrote flat keys: every set of flat keys,
\* beside no jupytext block, an empty one or one with the same entries.
LegacyMetadata ==
    {[EmptyMetadata EXCEPT
          !.nbrmd_formats = IF "nf" \in K THEN Some("ipynb,py") ELSE None,
          !.nbrmd_format_version = IF "nv" \in K THEN Some("1.0") ELSE None,
          !.jupytext_formats = IF "jf" \in K THEN Some("ipynb,md") ELSE None,
          !.jupytext_format_version = IF "jv" \in K THEN Some("1.1") ELSE None,
          !.main_language = IF "ml" \in K THEN Some("python") ELSE None,
          !.encoding = IF "en" \in K THEN Some("# -*- coding: utf-8 -*-") ELSE None,
          !.executable = IF "ex" \in K THEN Some("/usr/bin/env python") ELSE None,
          !.kernelspec = IF "ks" \in K THEN Some("python3") ELSE None,
          !.jupytext = j] :
        K \in SUBSET {"nf", "nv", "jf", "jv", "ml", "en", "ex", "ks"},
        j \in {None, Some(EmptyJupytext),
               Some([EmptyJupytext EXCEPT
                        !.formats = Some("ipynb,py:percent"),
                        !.text_representation =
                            Some([extension |-> Some(".py"), format_name |-> Some("percent"),
                                  format_version |-> Some("1.2")]),
                        !.encoding = Some("# coding: latin-1")])}}

\* Metadata with filters: the notebook filter in every form beside the other
\* keys in a few forms, and the deprecated metadata_filter block in every
\* form of its notebook entry.
FilterMetadata ==
    {WithJupytext([EmptyJupytext EXCEPT !.notebook_metadata_filter = n,
                                        !.cell_metadata_filter = c,
                                        !.metadata_filter = m]) :
        n \in {None} \cup {Some(f) : f \in FilterValues},
        c \in {None, Some(FilterText("-all")),
               Some(FilterDict(Some(AllKeys), Some(AllKeys)))},
        m \in {None, Some(EmptyFilters),
               Some([notebook |-> Some(FilterText("all")), cells |-> None]),
               Some([notebook |-> None,
                     cells |-> Some(FilterDict(None, Some(NameList(<<"c">>))))])}}
    \cup
    {WithJupytext([EmptyJupytext EXCEPT
                      !.notebook_metadata_filter = n,
                      !.metadata_filter = Some([notebook |-> Some(f), cells |-> c])]) :
        f \in FilterValues,
        n \in {None, Some(FilterDict(Some(NameList(<<"b">>)), None))},
        c \in {None, Some(FilterDict(Some(NameList(<<"a">>)), Some(AllKeys)))}}

InitMigrator ==
    /\ \E m \in LegacyMetadata \cup FilterMetadata :
          migrator = [metadata |-> m, initial |-> m, previous |-> EmptyMetadata, runs |-> 0]
    /\ registry = Idle /\ parser = Idle /\ updater = Idle
    /\ resolver = Idle /\ sniffer = Idle /\ guard = Idle

RearrangeJupytextMetadata ==
    /\ migrator.runs < MaxRuns
    /\ migrator' = [migrator EXCEPT !.metadata = rearrange_jupytext_metadata(migrator.metadata),
                                    !.previous = migrator.metadata,
                                    !.runs = @ + 1]
    /\ UNCHANGED <<registry, parser, updater, resolver, sniffer, guard>>

NextMigrator == RearrangeJupytextMetadata

SpecMigrator == InitMigrator /\ [][NextMigrator]_vars

\* C2: a second application of the migration, and every later one, leaves
\* the metadata as the application before it left them.
C2_MigrationIdempotent ==
    migrator.runs >= 2 => migrator.metadata = migrator.previous

\* Metadata with nbrmd_ and flat keys beside a jupytext block have been
\* migrated twice, the first migration having changed them.
C2_Witness ==
    /\ migrator.runs = 2
    /\ migrator.initial.nbrmd_formats # None
    /\ migrator.initial.jupytext_format_version # None
    /\ migrator.initial.encoding # None
    /\ migrator.initial.jupytext # None
    /\ migrator.metadata # migrator.initial
    /\ migrator.metadata.jupytext[1].formats = migrator.initial.nbrmd_formats

\* The value a filter key has when the filters are flattened: the entry of
\* the deprecated metadata_filter block if there is one, else the key's own.
FilterGiven(key, deprecated) ==
    LET block == migrator.initial.jupytext[1]
    IN  IF block.metadata_filter # None /\ block.metadata_filter[1][deprecated] # None
        THEN block.metadata_filter[1][deprecated]
        ELSE block[key]

\* The names a filter dict gives under a key: the list, ['all'] for the str
\* 'all', and the empty list when the key is missing.
NamesGiven(value) ==
    IF value = None THEN <<>>
    ELSE IF value[1] = AllKeys THEN <<"all">>
    ELSE value[1].names

\* The str flat is the flattening of the filter given: it lists, separated by
\* commas, the additional names in order and then the excluded names in
\* order, each after a '-', 'all' standing as 'all' and as '-all'.
IsFlattened(given, flat) ==
    LET additional == NamesGiven(given.additional)
        excluded   == NamesGiven(given.excluded)
        pieces     == Split(flat[1].text, ",")
    IN  /\ flat # None /\ flat[1].kind = "str"
        /\ (additional \o excluded = <<>>) => flat[1].text = ""
        /\ (additional \o excluded # <<>>) =>
               /\ Len(pieces) = Len(additional) + Len(excluded)
               /\ \A i \in 1..Len(additional) : pieces[i] = additional[i]
               /\ \A i \in 1..Len(excluded) :
                      pieces[Len(additional) + i] = "-" \o excluded[i]
        /\ (given = FilterDict(Some(NameList(<<"a", "b">>)), Some(NameList(<<"c">>))))
               => flat[1].text = "a,b,-c"
        /\ (given = FilterDict(Some(AllKeys), Some(NameList(<<"c">>))))
               => flat[1].text = "all,-c"

FilterLevels ==
    {<<"notebook_metadata_filter", "notebook">>, <<"cell_metadata_filter", "cells">>}

=============================================================================
